---- MODULE Spec2Model ----
(***************************************************************************)
(* Model of aporia.py: the JSONBin -> pandas -> Google Sheets pipeline.    *)
(*                                                                         *)
(* The Drive folder, the spreadsheets (tabs, cell values, charts) and the  *)
(* position of main() are the state.  Every remote call of the script is   *)
(* one step, so that a failure between two calls of one function is a      *)
(* state of the model.                                                     *)
(*                                                                         *)
(* Encodings                                                               *)
(*   None           the empty tuple <<>>; Some(x) is <<x>>                 *)
(*   a string cell  <<"str", chars>>, chars a tuple of one-letter strings  *)
(*   a number       <<"num", m, e>>, the decimal m * 10^(-e), normalised   *)
(*   Python None    <<"None">>;  float NaN  <<"NaN">>                      *)
(*   a tab title    a tuple of words, so that the provider's "Copy of X"   *)
(*                  differs from X                                         *)
(***************************************************************************)
EXTENDS Integers, Sequences, FiniteSets, TLC

VARIABLES
    files,          \* Drive: the files that exist, as records
    deleted,        \* Drive: the file records removed by files.delete
    sheets,         \* Sheets: spreadsheet id -> sequence of tabs
    charts,         \* Sheets: spreadsheet id -> sequence of embedded charts
    pc,             \* position of main() (a stage), or of the direct call
    frame,          \* locals of the function being executed
    force,          \* args.force
    campaign_data,  \* main: fetched campaign records
    media_data,     \* main: fetched media records
    df_campaign,    \* main: campaign DataFrame
    df_media,       \* main: media DataFrame
    source_id,      \* main: id of the source spreadsheet
    target_id,      \* main: id of the target spreadsheet
    log,            \* the calls issued so far, in order
    error,          \* the exception that ended the run, if any
    snapshot        \* a direct call: the Sheets state or table recorded before
                    \* the function is applied (again)

vars == <<files, deleted, sheets, charts, pc, frame, force, campaign_data,
          media_data, df_campaign, df_media, source_id, target_id, log, error,
          snapshot>>

-----------------------------------------------------------------------------
(* Bounds of the model *)

MaxInitFiles == 2
MaxRecords == 2
MaxCount == 2
MaxTabs == 2
MaxNames == 3
MaxHeaders == 2

-----------------------------------------------------------------------------
(* Optional values *)

None == <<>>
Some(x) == <<x>>
Get(o) == o[1]

-----------------------------------------------------------------------------
(* Environment configuration *)

FOLDER_ID == "folder"
OTHER_FOLDER == "elsewhere"
SOURCE_SHEET_NAME == "Source"
\* Both spreadsheets under one name.
TARGET_SHEET_NAME_same_as_source == "Source"

TARGET_SHEET_NAME == "Target"
TAB_MEDIA == <<"Media">>
TAB_CAMPAIGN == <<"Campaign">>
TAB_REPORT_BUYER == <<"Report_MediaBuyerSummary">>
TAB_REPORT_CAMP == <<"Report_CampaignPerformance">>
CHART_BUYER == <<"Chart_Buyer">>
CHART_CAMPAIGN == <<"Chart_Campaign">>
DefaultTab == <<"Sheet1">>
TOP_N == 25

-----------------------------------------------------------------------------
(* Cell values *)

Str(chars) == <<"str", chars>>
Num(m, e) == <<"num", m, e>>
NoneVal == <<"None">>
NaN == <<"NaN">>

IsStr(v) == v[1] = "str"
IsNum(v) == v[1] = "num"

Digits == {"0", "1", "2", "3", "4", "5", "6", "7", "8", "9"}

DigitVal(c) ==
    CASE c = "0" -> 0 [] c = "1" -> 1 [] c = "2" -> 2 [] c = "3" -> 3
      [] c = "4" -> 4 [] c = "5" -> 5 [] c = "6" -> 6 [] c = "7" -> 7
      [] c = "8" -> 8 [] c = "9" -> 9

RECURSIVE DigitsValue(_)
DigitsValue(ds) ==
    IF ds = <<>> THEN 0
    ELSE 10 * DigitsValue(SubSeq(ds, 1, Len(ds) - 1)) + DigitVal(ds[Len(ds)])

RECURSIVE Normalise(_, _)
Normalise(m, e) ==
    IF e > 0 /\ m % 10 = 0 THEN Normalise(m \div 10, e - 1) ELSE Num(m, e)

Negate(n) == Num(0 - n[2], n[3])

\* The decimal literal grammar float() accepts over the model's alphabet:
\* [sign] digits [. digits] with at least one digit.  None when it does not
\* parse.
ParseUnsigned(chars) ==
    LET dots == {i \in 1..Len(chars) : chars[i] = "."}
        dot == IF dots = {} THEN Len(chars) + 1 ELSE CHOOSE i \in dots : TRUE
        ip == SubSeq(chars, 1, dot - 1)
        fp == SubSeq(chars, dot + 1, Len(chars))
        all == ip \o fp
    IN  IF Cardinality(dots) <= 1 /\ all # <<>>
           /\ \A i \in 1..Len(all) : all[i] \in Digits
        THEN Some(Normalise(DigitsValue(all), Len(fp)))
        ELSE None

ParseDecimal(chars) ==
    IF chars # <<>> /\ chars[1] \in {"-", "+"}
    THEN LET r == ParseUnsigned(Tail(chars))
         IN  IF r = None THEN None
             ELSE IF chars[1] = "-" THEN Some(Negate(Get(r))) ELSE r
    ELSE ParseUnsigned(chars)

-----------------------------------------------------------------------------
(* pandas: a dict is a sequence of <<key, value>> pairs (insertion order);  *)
(* a DataFrame is its column names and its rows, each row aligned with the *)
(* columns.                                                                *)

Keys(d) == {d[i][1] : i \in 1..Len(d)}

Lookup(d, k) == (CHOOSE i \in 1..Len(d) : d[i][1] = k)

Value(d, k) == d[Lookup(d, k)][2]

RECURSIVE AppendNew(_, _)
AppendNew(cols, d) ==
    IF d = <<>> THEN cols
    ELSE LET k == d[1][1]
         IN  AppendNew(IF \E i \in 1..Len(cols) : cols[i] = k
                       THEN cols ELSE Append(cols, k), Tail(d))

\* Column names in order of first appearance over the records.
RECURSIVE UnionColumns(_, _)
UnionColumns(cols, records) ==
    IF records = <<>> THEN cols
    ELSE UnionColumns(AppendNew(cols, records[1]), Tail(records))

\* A column all of whose present values are numbers is a float column: None
\* is stored there as NaN.  In an object column None stays None.
NumericColumn(records, k) ==
    \A i \in 1..Len(records) :
        k \in Keys(records[i]) =>
            (IsNum(Value(records[i], k)) \/ Value(records[i], k) = NoneVal)

Cell(records, i, k) ==
    IF k \notin Keys(records[i]) THEN NaN
    ELSE IF Value(records[i], k) = NoneVal /\ NumericColumn(records, k) THEN NaN
    ELSE Value(records[i], k)

DataFrame(records) ==
    LET cols == UnionColumns(<<>>, records)
    IN  [columns |-> cols,
         rows |-> [i \in 1..Len(records) |->
                      [j \in 1..Len(cols) |-> Cell(records, i, cols[j])]]]

HasColumn(df, k) == \E j \in 1..Len(df.columns) : df.columns[j] = k

ColumnIndex(df, k) == CHOOSE j \in 1..Len(df.columns) : df.columns[j] = k

Column(df, k) == [i \in 1..Len(df.rows) |-> df.rows[i][ColumnIndex(df, k)]]

SetColumn(df, k, series) ==
    [df EXCEPT !.rows = [i \in 1..Len(df.rows) |->
                            [df.rows[i] EXCEPT ![ColumnIndex(df, k)] = series[i]]]]

\* DataFrame.rename(columns=...) of main
CampaignRenameKeys ==
    {"Platform", "offer", "country", "adtitle", "Revenue", "Leads",
     "Revenue Per Leads", "top_10_keywords"}

\* A map one of whose new names is itself a key of the map.
CampaignRename_chain(c) ==
    CASE c = "Platform" -> "Platform"
      [] c = "offer" -> "Offer"
      [] c = "country" -> "Country"
      [] c = "adtitle" -> "Ad Title"
      [] c = "Revenue" -> "Revenue Prediction"
      [] c = "Leads" -> "Leads"
      [] c = "Revenue Per Leads" -> "Revenue"
      [] c = "top_10_keywords" -> "Top 10 Keywords"

CampaignRename(c) ==
    CASE c = "Platform" -> "Platform"
      [] c = "offer" -> "Offer"
      [] c = "country" -> "Country"
      [] c = "adtitle" -> "Ad Title"
      [] c = "Revenue" -> "Revenue Prediction"
      [] c = "Leads" -> "Leads"
      [] c = "Revenue Per Leads" -> "Revenue Per Lead"
      [] c = "top_10_keywords" -> "Top 10 Keywords"

rename(df) ==
    [df EXCEPT !.columns = [j \in 1..Len(df.columns) |->
                               IF df.columns[j] \in CampaignRenameKeys
                               THEN CampaignRename(df.columns[j])
                               ELSE df.columns[j]]]

\* errors="ignore": an unparseable value is returned as it is.
coerce_ignore(v) ==
    IF IsNum(v) THEN v
    ELSE IF IsStr(v) /\ ParseDecimal(v[2]) # None THEN Get(ParseDecimal(v[2]))
    ELSE IF IsStr(v) THEN v
    ELSE NaN

\* pd.to_numeric(..., errors="coerce") on one value
coerce(v) ==
    IF IsNum(v) THEN v
    ELSE IF IsStr(v) /\ ParseDecimal(v[2]) # None THEN Get(ParseDecimal(v[2]))
    ELSE NaN

to_numeric(series) == [i \in 1..Len(series) |-> coerce(series[i])]

\* Series.nunique(): the number of distinct values, NaN and None left out.
nunique(series) ==
    Cardinality({series[i] : i \in 1..Len(series)} \ {NaN, NoneVal})

\* df["Revenue"] raises KeyError when the frame has no such column.
normalize_media(records) ==
    LET df0 == DataFrame(records)
    IN  IF ~HasColumn(df0, "Revenue") \/ ~HasColumn(df0, "Spend")
        THEN [ok |-> FALSE, error |-> "KeyError"]
        ELSE LET df1 == SetColumn(df0, "Revenue", to_numeric(Column(df0, "Revenue")))
                 df2 == SetColumn(df1, "Spend", to_numeric(Column(df1, "Spend")))
             IN  [ok |-> TRUE, df |-> df2]

normalize_campaign(records) == rename(DataFrame(records))

\* upload_dataframe: [df.columns.tolist()] + df.values.tolist()
Values(df) == [header |-> df.columns, rows |-> df.rows]

-----------------------------------------------------------------------------
(* main(): its stages, and the bookkeeping shared by all steps *)

\* The target spreadsheet created before the report formulas are written.
MainStages_target_early ==
    <<"fetch_campaign", "fetch_media", "normalize", "credentials",
      "create_source", "setup_tabs", "upload_media", "upload_campaign",
      "create_target", "add_reports", "copy_media", "copy_campaign",
      "copy_report_buyer", "copy_report_camp", "add_charts", "done">>

\* The call statements of main, in program order.
MainStages ==
    <<"fetch_campaign", "fetch_media", "normalize", "credentials",
      "create_source", "setup_tabs", "upload_media", "upload_campaign",
      "add_reports", "create_target", "copy_media", "copy_campaign",
      "copy_report_buyer", "copy_report_camp", "add_charts", "done">>

StageIndex(s) == CHOOSE i \in 1..Len(MainStages) : MainStages[i] = s

IsStage(s) == \E i \in 1..Len(MainStages) : MainStages[i] = s

\* Where control goes when the current call returns: the next statement of
\* main, or back to the caller of a direct call.
Return(p) == IF p = "call" THEN "returned" ELSE MainStages[StageIndex(p) + 1]

Idle == [fn |-> "idle"]

\* One entry of the log: the statement of main, the function and the call in it.
Entry(ok) ==
    [stage |-> pc, fn |-> frame.fn,
     step |-> IF frame.fn = "idle" THEN "local" ELSE frame.step, ok |-> ok]

\* The frame after the return: main drops it; after a direct call it is kept,
\* with its arguments and locals.
Returned == IF pc = "call" THEN [frame EXCEPT !.step = "done"] ELSE Idle

\* An uncaught exception propagates and ends the process (no handler anywhere).
Raise(e) == pc' = "aborted" /\ error' = Some(e)

\* A variant that catches the exception and stays at the same call.
OnRemoteFailure_retry == UNCHANGED <<pc, error>>

\* What a failed remote call does to the run.
OnRemoteFailure == Raise("remote")

driveVars == <<files, deleted>>
sheetVars == <<sheets, charts>>
dataVars == <<campaign_data, media_data, df_campaign, df_media>>
idVars == <<source_id, target_id, snapshot>>

-----------------------------------------------------------------------------
(* Inputs *)

S_12_5 == Str(<<"1", "2", ".", "5">>)
S_100 == Str(<<"1", "0", "0">>)
S_40 == Str(<<"4", "0">>)
S_20 == Str(<<"2", "0">>)
S_abc == Str(<<"a", "b", "c">>)
S_bad == Str(<<"b", "a", "d">>)
S_A == Str(<<"A">>)
S_B == Str(<<"B">>)

\* An optional field of a record: absent, or present with one of the values.
Field(k, values) == {<<>>} \cup {<<(<<k, v>>)>> : v \in values}

MediaRecords ==
    {b \o r \o s :
        b \in Field("Media Buyer", {S_A, S_B}),
        r \in Field("Revenue", {S_12_5, S_abc, NoneVal, Num(40, 0)}),
        s \in Field("Spend", {S_20, S_bad})}

RECURSIVE SeqsUpTo(_, _)
SeqsUpTo(S, n) ==
    IF n = 0 THEN {<<>>}
    ELSE LET shorter == SeqsUpTo(S, n - 1)
         IN  shorter \cup {Append(q, x) : q \in shorter, x \in S}

MediaInputs == SeqsUpTo(MediaRecords, MaxRecords)

CampaignInputs ==
    {<<>>,
     << <<(<<"Platform", S_A>>), (<<"offer", S_B>>), (<<"Revenue", Num(5, 0)>>),
          (<<"Leads", Num(2, 0)>>)>> >>,
     << <<(<<"Platform", S_A>>), (<<"Revenue", S_12_5>>)>>,
        <<(<<"Platform", S_B>>), (<<"country", S_A>>)>> >>}

\* What the two bins return in a run of the pipeline.
MediaBin ==
    {<<>>,
     << <<(<<"Media Buyer", S_A>>), (<<"Revenue", S_100>>), (<<"Spend", S_40>>)>>,
        <<(<<"Media Buyer", S_B>>), (<<"Revenue", S_bad>>), (<<"Spend", S_20>>)>> >>,
     << <<(<<"Revenue", S_12_5>>), (<<"Spend", S_20>>)>> >>,
     << <<(<<"Media Buyer", S_A>>), (<<"Spend", S_20>>)>> >>}

CampaignBin == {CampaignInputs_i \in CampaignInputs : Len(CampaignInputs_i) <= 1}

-----------------------------------------------------------------------------
(* Google Drive *)

\* The query of find_existing_file without its folder clause.
Matches_any_folder(fs, name, folder_id) ==
    {f \in fs : f.name = name /\ ~f.trashed}

\* name='...' and '<folder>' in parents and trashed=false
Matches(fs, name, folder_id) ==
    {f \in fs : f.name = name /\ folder_id \in f.parents /\ ~f.trashed}

FileIds == {f.id : f \in files \cup deleted}

FreshFileId == IF FileIds = {} THEN 1
               ELSE (CHOOSE m \in FileIds : \A i \in FileIds : i <= m) + 1

\* A spreadsheet made by files.create has one tab, "Sheet1", with sheetId 0.
NewTab(id, title) ==
    [sheetId |-> id, title |-> title, values |-> None, cells |-> {}, formats |-> {}]

\* create_sheet looks the name up whatever the flag says.
FirstStep_always_lookup(f) == "list"

\* create_sheet: the lookup and the deletion happen under force only.
FirstStep(f) == IF f THEN "list" ELSE "create"

create_sheet_frame(name, f) ==
    [fn |-> "create_sheet", name |-> name, force |-> f, step |-> FirstStep(f),
     existing_id |-> None, result |-> None]

\* find_existing_file: files[0] of the listing, whose order the provider picks.
create_sheet_list ==
    /\ frame.fn = "create_sheet" /\ frame.step = "list"
    /\ pc # "aborted"
    /\ LET found == Matches(files, frame.name, FOLDER_ID)
       IN  \/ /\ found = {}
              /\ frame' = [frame EXCEPT !.step = "create"]
           \/ \E f \in found :
                 frame' = [frame EXCEPT !.step = "delete", !.existing_id = Some(f.id)]
    /\ log' = Append(log, Entry(TRUE))
    /\ UNCHANGED <<driveVars, sheetVars, dataVars, idVars, pc, force, error>>

\* delete_file
create_sheet_delete ==
    /\ frame.fn = "create_sheet" /\ frame.step = "delete"
    /\ pc # "aborted"
    /\ LET gone == {f \in files : f.id = Get(frame.existing_id)}
       IN  /\ files' = files \ gone
           /\ deleted' = deleted \cup gone
    /\ frame' = [frame EXCEPT !.step = "create"]
    /\ log' = Append(log, Entry(TRUE))
    /\ UNCHANGED <<sheetVars, dataVars, idVars, pc, force, error>>

\* files().create(...), and the return of the new id to the caller
create_sheet_create ==
    /\ frame.fn = "create_sheet" /\ frame.step = "create"
    /\ pc # "aborted"
    /\ LET id == FreshFileId
       IN  /\ files' = files \cup {[id |-> id, name |-> frame.name,
                                    parents |-> {FOLDER_ID}, trashed |-> FALSE]}
           /\ sheets' = sheets @@ (id :> <<NewTab(0, DefaultTab)>>)
           /\ charts' = charts @@ (id :> <<>>)
           /\ source_id' = IF pc = "create_source" THEN Some(id) ELSE source_id
           /\ target_id' = IF pc = "create_target" THEN Some(id) ELSE target_id
           /\ frame' = IF pc = "call"
                       THEN [frame EXCEPT !.step = "done", !.result = Some(id)]
                       ELSE Idle
    /\ log' = Append(log, Entry(TRUE))
    /\ pc' = Return(pc)
    /\ UNCHANGED <<deleted, dataVars, force, error, snapshot>>

-----------------------------------------------------------------------------
(* Data extraction, credentials and the DataFrame stage *)

\* requests.get + raise_for_status + resp.json()
fetch_jsonbin ==
    /\ frame.fn = "fetch_jsonbin"
    /\ pc \in {"fetch_campaign", "fetch_media"}
    /\ \/ /\ pc = "fetch_campaign"
          /\ \E data \in CampaignBin : campaign_data' = Some(data)
          /\ UNCHANGED media_data
       \/ /\ pc = "fetch_media"
          /\ \E data \in MediaBin : media_data' = Some(data)
          /\ UNCHANGED campaign_data
    /\ log' = Append(log, Entry(TRUE))
    /\ pc' = Return(pc)
    /\ frame' = Idle
    /\ UNCHANGED <<driveVars, sheetVars, idVars, df_campaign, df_media, force, error>>

\* subprocess.check_output(["gcloud", "auth", "print-access-token"])
get_credentials ==
    /\ frame.fn = "get_credentials"
    /\ pc = "credentials"
    /\ log' = Append(log, Entry(TRUE))
    /\ pc' = Return(pc)
    /\ frame' = Idle
    /\ UNCHANGED <<driveVars, sheetVars, dataVars, idVars, force, error>>

\* [2] Converting to DataFrames: local, no remote call
main_normalize ==
    /\ pc = "normalize" /\ frame = Idle
    /\ LET r == normalize_media(Get(media_data))
       IN  \/ /\ r.ok
              /\ df_campaign' = Some(normalize_campaign(Get(campaign_data)))
              /\ df_media' = Some(r.df)
              /\ pc' = Return(pc)
              /\ log' = Append(log, Entry(TRUE))
              /\ UNCHANGED error
           \/ /\ ~r.ok
              /\ df_campaign' = Some(normalize_campaign(Get(campaign_data)))
              /\ UNCHANGED df_media
              /\ Raise(r.error)
              /\ log' = Append(log, Entry(FALSE))
    /\ UNCHANGED <<driveVars, sheetVars, idVars, campaign_data, media_data,
                   frame, force>>

-----------------------------------------------------------------------------
(* Google Sheets: the provider's side of the calls the script makes *)

Titles(tabs) == {tabs[i].title : i \in 1..Len(tabs)}

SheetIds(tabs) == {tabs[i].sheetId : i \in 1..Len(tabs)}

FreshSheetId(tabs) ==
    (CHOOSE m \in SheetIds(tabs) : \A i \in SheetIds(tabs) : i <= m) + 1

HasTitle(tabs, title) == title \in Titles(tabs)

\* next(s["properties"]["sheetId"] for s in meta["sheets"] if title matches)
SheetIdOf(tabs, title) ==
    LET first == CHOOSE i \in 1..Len(tabs) :
                    /\ tabs[i].title = title
                    /\ \A j \in 1..(i - 1) : tabs[j].title # title
    IN  tabs[first].sheetId

IndexOfId(tabs, id) == CHOOSE i \in 1..Len(tabs) : tabs[i].sheetId = id

RenameReq(id, title) == [kind |-> "updateSheetProperties", sheetId |-> id, title |-> title]
AddSheetReq(title) == [kind |-> "addSheet", sheetId |-> 0 - 1, title |-> title]

\* One request of a batchUpdate; None when the provider rejects it: a title
\* must be unique among the tabs of a spreadsheet.
ApplyRequest(tabs, r) ==
    IF r.kind = "updateSheetProperties"
    THEN IF r.sheetId \notin SheetIds(tabs) THEN None
         ELSE IF \E i \in 1..Len(tabs) :
                    tabs[i].title = r.title /\ tabs[i].sheetId # r.sheetId
              THEN None
         ELSE Some([tabs EXCEPT ![IndexOfId(tabs, r.sheetId)].title = r.title])
    ELSE IF HasTitle(tabs, r.title) THEN None
         ELSE Some(Append(tabs, NewTab(FreshSheetId(tabs), r.title)))

\* A batchUpdate is atomic: its requests apply in order, or none applies.
RECURSIVE ApplyRequests(_, _)
ApplyRequests(tabs, reqs) ==
    IF reqs = <<>> THEN Some(tabs)
    ELSE LET r == ApplyRequest(tabs, reqs[1])
         IN  IF r = None THEN None ELSE ApplyRequests(Get(r), Tail(reqs))

\* The title sheets.copyTo gives the copy: "Copy of <title>", with a number
\* appended while that title is taken.
CopyOf(title) == <<"Copy of">> \o title

RECURSIVE Numbered(_, _, _)
Numbered(tabs, title, k) ==
    IF ~HasTitle(tabs, Append(title, ToString(k))) THEN Append(title, ToString(k))
    ELSE Numbered(tabs, title, k + 1)

AutoCopyTitle(tabs, title) ==
    IF ~HasTitle(tabs, CopyOf(title)) THEN CopyOf(title)
    ELSE Numbered(tabs, CopyOf(title), 1)

-----------------------------------------------------------------------------
(* setup_tabs and upload_dataframe *)

\* Every name added as a new tab, the implicit first tab left as it is.
setup_tabs_requests_add_all(tab_names) ==
    [i \in 1..Len(tab_names) |-> AddSheetReq(tab_names[i])]

setup_tabs_requests(tab_names) ==
    <<RenameReq(0, tab_names[1])>>
        \o [i \in 1..(Len(tab_names) - 1) |-> AddSheetReq(tab_names[i + 1])]

setup_tabs ==
    /\ frame.fn = "setup_tabs" /\ frame.step = "batchUpdate"
    /\ pc # "aborted"
    /\ LET r == ApplyRequests(sheets[frame.spreadsheet_id],
                              setup_tabs_requests(frame.tab_names))
       IN  \/ /\ r # None
              /\ sheets' = [sheets EXCEPT ![frame.spreadsheet_id] = Get(r)]
              /\ log' = Append(log, Entry(TRUE))
              /\ pc' = Return(pc)
              /\ frame' = Returned
              /\ UNCHANGED error
           \/ /\ r = None
              /\ log' = Append(log, Entry(FALSE))
              /\ OnRemoteFailure
              /\ UNCHANGED <<sheets, frame>>
    /\ UNCHANGED <<driveVars, charts, dataVars, idVars, force>>

\* values().update(range="<tab>!A1", body={"values": values})
upload_dataframe ==
    /\ frame.fn = "upload_dataframe" /\ frame.step = "update"
    /\ pc # "aborted"
    /\ LET tabs == sheets[frame.spreadsheet_id]
       IN  \/ /\ HasTitle(tabs, frame.sheet_name)
              /\ sheets' = [sheets EXCEPT ![frame.spreadsheet_id] =
                    [i \in 1..Len(tabs) |->
                        IF tabs[i].title = frame.sheet_name
                        THEN [tabs[i] EXCEPT !.values = Some(Values(frame.df))]
                        ELSE tabs[i]]]
              /\ log' = Append(log, Entry(TRUE))
              /\ pc' = Return(pc)
              /\ frame' = Returned
              /\ UNCHANGED error
           \/ /\ ~HasTitle(tabs, frame.sheet_name)
              /\ log' = Append(log, Entry(FALSE))
              /\ OnRemoteFailure
              /\ UNCHANGED <<sheets, frame>>
    /\ UNCHANGED <<driveVars, charts, dataVars, idVars, force>>

-----------------------------------------------------------------------------
(* add_report_formulas *)

CellAt(row, col, kind, arg) == [row |-> row, col |-> col, kind |-> kind, arg |-> arg]

\* updateCells overwrites the cells it names.
UpdateCells(cells, new) ==
    {c \in cells : ~\E n \in new : n.row = c.row /\ n.col = c.col} \cup new

BuyerReportCells ==
    {CellAt(0, 0, "title_buyer", 0), CellAt(2, 0, "query_buyer", 0)}

CampReportCells(top_n) ==
    {CellAt(0, 0, "title_camp", top_n), CellAt(2, 0, "query_camp", top_n),
     CellAt(2, 6, "key_arrayformula", 0)}

\* repeatCell ranges: startRowIndex 2 and no endRowIndex (to the end of the tab).
Format(startCol, endCol, pattern) ==
    [startRowIndex |-> 2, endRowIndex |-> None, startColumnIndex |-> startCol,
     endColumnIndex |-> endCol, pattern |-> pattern]

BuyerFormats == {Format(1, 3, "#,##0.00"), Format(3, 4, "0.00%")}

CampFormats == {Format(3, 4, "#,##0.00"), Format(4, 5, "#,##0"), Format(5, 6, "0.00%")}

\* updateCells on the tab with the given sheetId
WriteCells(tabs, id, new) ==
    [i \in 1..Len(tabs) |->
        IF tabs[i].sheetId = id
        THEN [tabs[i] EXCEPT !.cells = UpdateCells(@, new)] ELSE tabs[i]]

\* repeatCell on the tab with the given sheetId
WriteFormats(tabs, id, new) ==
    [i \in 1..Len(tabs) |->
        IF tabs[i].sheetId = id
        THEN [tabs[i] EXCEPT !.formats = @ \cup new] ELSE tabs[i]]

add_report_formulas_get ==
    /\ frame.fn = "add_report_formulas" /\ frame.step = "get"
    /\ pc # "aborted"
    /\ log' = Append(log, Entry(TRUE))
    /\ LET tabs == sheets[frame.spreadsheet_id]
       IN  \/ /\ HasTitle(tabs, TAB_REPORT_BUYER) /\ HasTitle(tabs, TAB_REPORT_CAMP)
              /\ frame' = [frame EXCEPT !.step = "formulas",
                              !.buyer_sheet_id = Some(SheetIdOf(tabs, TAB_REPORT_BUYER)),
                              !.camp_sheet_id = Some(SheetIdOf(tabs, TAB_REPORT_CAMP))]
              /\ UNCHANGED <<pc, error>>
           \/ /\ ~(HasTitle(tabs, TAB_REPORT_BUYER) /\ HasTitle(tabs, TAB_REPORT_CAMP))
              /\ Raise("StopIteration")
              /\ UNCHANGED frame
    /\ UNCHANGED <<driveVars, sheetVars, dataVars, idVars, force>>

add_report_formulas_cells ==
    /\ frame.fn = "add_report_formulas" /\ frame.step = "formulas"
    /\ pc # "aborted"
    /\ sheets' = [sheets EXCEPT ![frame.spreadsheet_id] =
          WriteCells(WriteCells(@, Get(frame.buyer_sheet_id), BuyerReportCells),
                     Get(frame.camp_sheet_id), CampReportCells(frame.top_n))]
    /\ frame' = [frame EXCEPT !.step = "formats"]
    /\ log' = Append(log, Entry(TRUE))
    /\ UNCHANGED <<driveVars, charts, dataVars, idVars, pc, force, error>>

add_report_formulas_formats ==
    /\ frame.fn = "add_report_formulas" /\ frame.step = "formats"
    /\ pc # "aborted"
    /\ sheets' = [sheets EXCEPT ![frame.spreadsheet_id] =
          WriteFormats(WriteFormats(@, Get(frame.buyer_sheet_id), BuyerFormats),
                       Get(frame.camp_sheet_id), CampFormats)]
    /\ log' = Append(log, Entry(TRUE))
    /\ pc' = Return(pc)
    /\ frame' = Returned
    /\ UNCHANGED <<driveVars, charts, dataVars, idVars, force, error>>

-----------------------------------------------------------------------------
(* copy_sheet *)

\* The title copy_sheet leaves on the copy when it does not rename it.
RenamedTitle_keep_auto(sheet_name, auto_title) == auto_title

\* The title the final updateSheetProperties asks for.
RenamedTitle(sheet_name, auto_title) == sheet_name

copy_sheet_get ==
    /\ frame.fn = "copy_sheet" /\ frame.step = "get"
    /\ pc # "aborted"
    /\ log' = Append(log, Entry(TRUE))
    /\ LET tabs == sheets[frame.source_id]
       IN  \/ /\ HasTitle(tabs, frame.sheet_name)
              /\ frame' = [frame EXCEPT !.step = "copyTo",
                              !.sheet_id = Some(SheetIdOf(tabs, frame.sheet_name))]
              /\ UNCHANGED <<pc, error>>
           \/ /\ ~HasTitle(tabs, frame.sheet_name)
              /\ Raise("StopIteration")
              /\ UNCHANGED frame
    /\ UNCHANGED <<driveVars, sheetVars, dataVars, idVars, force>>

\* sheets().copyTo(...): the copy gets a new sheetId and the provider's title.
\* The charts embedded on tab `old`, as they come with a copy of the tab that
\* has sheetId `new` (sheets.copyTo copies a tab with what is embedded on it).
RECURSIVE ChartsOn(_, _, _)
ChartsOn(cs, old, new) ==
    IF cs = <<>> THEN <<>>
    ELSE (IF Head(cs).anchor = old THEN <<[Head(cs) EXCEPT !.anchor = new]>> ELSE <<>>)
            \o ChartsOn(Tail(cs), old, new)

copy_sheet_copyTo ==
    /\ frame.fn = "copy_sheet" /\ frame.step = "copyTo"
    /\ pc # "aborted"
    /\ LET src == sheets[frame.source_id]
           tab == src[IndexOfId(src, Get(frame.sheet_id))]
           dst == sheets[frame.target_id]
           id == FreshSheetId(dst)
           auto == AutoCopyTitle(dst, tab.title)
       IN  /\ sheets' = [sheets EXCEPT ![frame.target_id] =
                            Append(dst, [tab EXCEPT !.sheetId = id, !.title = auto])]
           /\ charts' = [charts EXCEPT ![frame.target_id] =
                            @ \o ChartsOn(charts[frame.source_id], tab.sheetId, id)]
           /\ frame' = [frame EXCEPT !.step = "rename", !.result = Some(id),
                                     !.auto_title = Some(auto)]
    /\ log' = Append(log, Entry(TRUE))
    /\ UNCHANGED <<driveVars, dataVars, idVars, pc, force, error>>

copy_sheet_rename ==
    /\ frame.fn = "copy_sheet" /\ frame.step = "rename"
    /\ pc # "aborted"
    /\ LET title == RenamedTitle(frame.sheet_name, Get(frame.auto_title))
           r == ApplyRequests(sheets[frame.target_id],
                              <<RenameReq(Get(frame.result), title)>>)
       IN  \/ /\ r # None
              /\ sheets' = [sheets EXCEPT ![frame.target_id] = Get(r)]
              /\ log' = Append(log, Entry(TRUE))
              /\ pc' = Return(pc)
              /\ frame' = Returned
              /\ UNCHANGED error
           \/ /\ r = None
              /\ log' = Append(log, Entry(FALSE))
              /\ OnRemoteFailure
              /\ UNCHANGED <<sheets, frame>>
    /\ UNCHANGED <<driveVars, charts, dataVars, idVars, force>>

-----------------------------------------------------------------------------
(* add_charts *)

buyer_start == 2
camp_start == 2

Max(a, b) == IF a >= b THEN a ELSE b

\* count or 0
OrZero(count) == IF count = None \/ count = Some(0) THEN 0 ELSE Get(count)

\* The clamp dropped: count or 0.
Clamp_no_max(count) == OrZero(count)

\* max(count or 0, 0)
Clamp(count) == Max(OrZero(count), 0)

\* A fixed fill length instead of the count.
buyer_end_fixed(buyers_count) == buyer_start + 1 + 6

\* The header row left out of the range.
buyer_end_no_header(buyers_count) == buyer_start + Clamp(buyers_count)

buyer_end(buyers_count) == buyer_start + 1 + Clamp(buyers_count)

camp_end(top_n) == camp_start + 1 + Clamp(top_n)

Source(id, startRow, endRow, startCol, endCol) ==
    [sheetId |-> id, startRowIndex |-> startRow, endRowIndex |-> endRow,
     startColumnIndex |-> startCol, endColumnIndex |-> endCol]

BuyerChart(fr) ==
    LET id == Get(fr.buyer_sheet_id)
        s == buyer_start
        e == buyer_end(fr.buyers_count)
    IN  [chartType |-> "COMBO",
         domains |-> <<Source(id, s, e, 0, 1)>>,
         series |-> <<Source(id, s, e, 1, 2), Source(id, s, e, 2, 3),
                      Source(id, s, e, 3, 4)>>,
         anchor |-> Get(fr.chart_buyer_id)]

CampChart(fr) ==
    LET id == Get(fr.camp_sheet_id)
        s == camp_start
        e == camp_end(fr.top_n)
    IN  [chartType |-> "BAR",
         domains |-> <<Source(id, s, e, 6, 7)>>,
         series |-> <<Source(id, s, e, 3, 4), Source(id, s, e, 5, 6)>>,
         anchor |-> Get(fr.chart_camp_id)]

\* ensure_sheet reads the metadata fetched at the start of add_charts.
AfterEnsureBuyer(meta) ==
    IF HasTitle(meta, CHART_CAMPAIGN) THEN "chart_buyer" ELSE "ensure_camp"

AfterGet(meta) ==
    IF HasTitle(meta, CHART_BUYER) THEN AfterEnsureBuyer(meta) ELSE "ensure_buyer"

add_charts_get ==
    /\ frame.fn = "add_charts" /\ frame.step = "get"
    /\ pc # "aborted"
    /\ log' = Append(log, Entry(TRUE))
    /\ LET meta == sheets[frame.spreadsheet_id]
       IN  \/ /\ HasTitle(meta, TAB_REPORT_BUYER) /\ HasTitle(meta, TAB_REPORT_CAMP)
              /\ frame' = [frame EXCEPT
                    !.step = AfterGet(meta),
                    !.meta = meta,
                    !.buyer_sheet_id = Some(SheetIdOf(meta, TAB_REPORT_BUYER)),
                    !.camp_sheet_id = Some(SheetIdOf(meta, TAB_REPORT_CAMP)),
                    !.chart_buyer_id = IF HasTitle(meta, CHART_BUYER)
                                       THEN Some(SheetIdOf(meta, CHART_BUYER)) ELSE None,
                    !.chart_camp_id = IF HasTitle(meta, CHART_CAMPAIGN)
                                      THEN Some(SheetIdOf(meta, CHART_CAMPAIGN)) ELSE None]
              /\ UNCHANGED <<pc, error>>
           \/ /\ ~(HasTitle(meta, TAB_REPORT_BUYER) /\ HasTitle(meta, TAB_REPORT_CAMP))
              /\ Raise("StopIteration")
              /\ UNCHANGED frame
    /\ UNCHANGED <<driveVars, sheetVars, dataVars, idVars, force>>

\* ensure_sheet(title) when the metadata has no such tab: addSheet
add_charts_ensure_sheet ==
    /\ frame.fn = "add_charts" /\ frame.step \in {"ensure_buyer", "ensure_camp"}
    /\ pc # "aborted"
    /\ LET title == IF frame.step = "ensure_buyer" THEN CHART_BUYER ELSE CHART_CAMPAIGN
           tabs == sheets[frame.spreadsheet_id]
           r == ApplyRequests(tabs, <<AddSheetReq(title)>>)
       IN  \/ /\ r # None
              /\ sheets' = [sheets EXCEPT ![frame.spreadsheet_id] = Get(r)]
              /\ frame' = IF frame.step = "ensure_buyer"
                          THEN [frame EXCEPT !.step = AfterEnsureBuyer(frame.meta),
                                             !.chart_buyer_id = Some(FreshSheetId(tabs))]
                          ELSE [frame EXCEPT !.step = "chart_buyer",
                                             !.chart_camp_id = Some(FreshSheetId(tabs))]
              /\ log' = Append(log, Entry(TRUE))
              /\ UNCHANGED <<pc, error>>
           \/ /\ r = None
              /\ log' = Append(log, Entry(FALSE))
              /\ OnRemoteFailure
              /\ UNCHANGED <<sheets, frame>>
    /\ UNCHANGED <<driveVars, charts, dataVars, idVars, force>>

add_charts_buyer ==
    /\ frame.fn = "add_charts" /\ frame.step = "chart_buyer"
    /\ pc # "aborted"
    /\ charts' = [charts EXCEPT ![frame.spreadsheet_id] = Append(@, BuyerChart(frame))]
    /\ frame' = [frame EXCEPT !.step = "chart_camp"]
    /\ log' = Append(log, Entry(TRUE))
    /\ UNCHANGED <<driveVars, sheets, dataVars, idVars, pc, force, error>>

add_charts_camp ==
    /\ frame.fn = "add_charts" /\ frame.step = "chart_camp"
    /\ pc # "aborted"
    /\ charts' = [charts EXCEPT ![frame.spreadsheet_id] = Append(@, CampChart(frame))]
    /\ log' = Append(log, Entry(TRUE))
    /\ pc' = Return(pc)
    /\ frame' = Returned
    /\ UNCHANGED <<driveVars, sheets, dataVars, idVars, force, error>>

-----------------------------------------------------------------------------
(* The calls of main, and the failure of a remote call *)

fetch_jsonbin_frame(bin_id) == [fn |-> "fetch_jsonbin", step |-> "get", bin_id |-> bin_id]

get_credentials_frame == [fn |-> "get_credentials", step |-> "check_output"]

setup_tabs_frame(id, tab_names) ==
    [fn |-> "setup_tabs", step |-> "batchUpdate", spreadsheet_id |-> id,
     tab_names |-> tab_names]

upload_dataframe_frame(id, sheet_name, df) ==
    [fn |-> "upload_dataframe", step |-> "update", spreadsheet_id |-> id,
     sheet_name |-> sheet_name, df |-> df]

add_report_formulas_frame(id, top_n) ==
    [fn |-> "add_report_formulas", step |-> "get", spreadsheet_id |-> id,
     top_n |-> top_n, buyer_sheet_id |-> None, camp_sheet_id |-> None]

copy_sheet_frame(source, sheet_name, target) ==
    [fn |-> "copy_sheet", step |-> "get", source_id |-> source,
     sheet_name |-> sheet_name, target_id |-> target, sheet_id |-> None,
     result |-> None, auto_title |-> None]

add_charts_frame(id, buyers_count, top_n) ==
    [fn |-> "add_charts", step |-> "get", spreadsheet_id |-> id,
     buyers_count |-> buyers_count, top_n |-> top_n, meta |-> <<>>,
     buyer_sheet_id |-> None, camp_sheet_id |-> None,
     chart_buyer_id |-> None, chart_camp_id |-> None]

\* The tabs main copies, by statement.
CopiedTab(stage) ==
    CASE stage = "copy_media" -> TAB_MEDIA
      [] stage = "copy_campaign" -> TAB_CAMPAIGN
      [] stage = "copy_report_buyer" -> TAB_REPORT_BUYER
      [] stage = "copy_report_camp" -> TAB_REPORT_CAMP

CopyStages == {"copy_media", "copy_campaign", "copy_report_buyer", "copy_report_camp"}

\* The charts drawn on the source spreadsheet instead.
ChartsSpreadsheet_source == Get(source_id)

\* The spreadsheet main draws the charts on.
ChartsSpreadsheet == Get(target_id)

\* The call each statement of main makes, with its arguments.
CallFrame(stage) ==
    CASE stage = "fetch_campaign" -> fetch_jsonbin_frame("BIN_CAMPAIGN")
      [] stage = "fetch_media" -> fetch_jsonbin_frame("BIN_MEDIA")
      [] stage = "credentials" -> get_credentials_frame
      [] stage = "create_source" -> create_sheet_frame(SOURCE_SHEET_NAME, force)
      [] stage = "setup_tabs" ->
            setup_tabs_frame(Get(source_id),
                <<TAB_MEDIA, TAB_CAMPAIGN, TAB_REPORT_BUYER, TAB_REPORT_CAMP>>)
      [] stage = "upload_media" ->
            upload_dataframe_frame(Get(source_id), TAB_MEDIA, Get(df_media))
      [] stage = "upload_campaign" ->
            upload_dataframe_frame(Get(source_id), TAB_CAMPAIGN, Get(df_campaign))
      [] stage = "add_reports" -> add_report_formulas_frame(Get(source_id), TOP_N)
      [] stage = "create_target" -> create_sheet_frame(TARGET_SHEET_NAME, force)
      [] stage \in CopyStages ->
            copy_sheet_frame(Get(source_id), CopiedTab(stage), Get(target_id))
      [] stage = "add_charts" ->
            add_charts_frame(ChartsSpreadsheet,
                Some(nunique(Column(Get(df_media), "Media Buyer"))), Some(TOP_N))

\* main reaches a call statement: the arguments are evaluated and the function
\* entered.  df_media["Media Buyer"] raises KeyError without that column.
main_call ==
    /\ IsStage(pc) /\ pc \notin {"normalize", "done"}
    /\ frame = Idle
    /\ \/ /\ pc = "add_charts" /\ ~HasColumn(Get(df_media), "Media Buyer")
          /\ Raise("KeyError")
          /\ log' = Append(log, Entry(FALSE))
          /\ UNCHANGED frame
       \/ /\ ~(pc = "add_charts" /\ ~HasColumn(Get(df_media), "Media Buyer"))
          /\ frame' = CallFrame(pc)
          /\ UNCHANGED <<pc, error, log>>
    /\ UNCHANGED <<driveVars, sheetVars, dataVars, idVars, force>>

\* Any remote call may fail (network, timeout, non-2xx, HttpError, non-zero
\* exit): the exception is not caught anywhere.
RemoteFailure ==
    /\ frame.fn # "idle" /\ frame.step # "done"
    /\ pc \notin {"aborted", "returned", "done"}
    /\ log' = Append(log, Entry(FALSE))
    /\ OnRemoteFailure
    /\ UNCHANGED <<driveVars, sheetVars, dataVars, idVars, frame, force>>

-----------------------------------------------------------------------------
(* The run of main on a Drive that already holds some files *)

FileKinds ==
    <<[name |-> SOURCE_SHEET_NAME, parents |-> {FOLDER_ID}, trashed |-> FALSE],
      [name |-> TARGET_SHEET_NAME, parents |-> {FOLDER_ID}, trashed |-> FALSE],
      [name |-> SOURCE_SHEET_NAME, parents |-> {OTHER_FOLDER}, trashed |-> FALSE],
      [name |-> TARGET_SHEET_NAME, parents |-> {OTHER_FOLDER}, trashed |-> FALSE],
      [name |-> SOURCE_SHEET_NAME, parents |-> {FOLDER_ID}, trashed |-> TRUE],
      [name |-> "Notes", parents |-> {FOLDER_ID}, trashed |-> FALSE]>>

\* Up to MaxInitFiles files, each of one of the kinds (same-named files may
\* exist: Drive does not keep names unique).
InitDrives ==
    {q \in SeqsUpTo(1..Len(FileKinds), MaxInitFiles) :
        \A i \in 1..(Len(q) - 1) : q[i] <= q[i + 1]}

DriveOf(q) ==
    {[id |-> i, name |-> FileKinds[q[i]].name, parents |-> FileKinds[q[i]].parents,
      trashed |-> FileKinds[q[i]].trashed] : i \in 1..Len(q)}

Init ==
    /\ \E q \in InitDrives : files = DriveOf(q)
    /\ deleted = {}
    /\ sheets = <<>>
    /\ charts = <<>>
    /\ pc = "fetch_campaign"
    /\ frame = Idle
    /\ force \in BOOLEAN
    /\ campaign_data = None
    /\ media_data = None
    /\ df_campaign = None
    /\ df_media = None
    /\ source_id = None
    /\ target_id = None
    /\ log = <<>>
    /\ error = None
    /\ snapshot = None

Next ==
    \/ main_call
    \/ fetch_jsonbin
    \/ main_normalize
    \/ get_credentials
    \/ create_sheet_list
    \/ create_sheet_delete
    \/ create_sheet_create
    \/ setup_tabs
    \/ upload_dataframe
    \/ add_report_formulas_get
    \/ add_report_formulas_cells
    \/ add_report_formulas_formats
    \/ copy_sheet_get
    \/ copy_sheet_copyTo
    \/ copy_sheet_rename
    \/ add_charts_get
    \/ add_charts_ensure_sheet
    \/ add_charts_buyer
    \/ add_charts_camp
    \/ RemoteFailure

Spec == Init /\ [][Next]_vars

-----------------------------------------------------------------------------
(* The DataFrame stage alone, on every input within the bounds *)

InitNorm ==
    /\ files = {}
    /\ deleted = {}
    /\ sheets = <<>>
    /\ charts = <<>>
    /\ pc = "normalize"
    /\ frame = Idle
    /\ force = FALSE
    /\ \E data \in CampaignBin : campaign_data = Some(data)
    /\ \E data \in MediaInputs : media_data = Some(data)
    /\ df_campaign = None
    /\ df_media = None
    /\ source_id = None
    /\ target_id = None
    /\ log = <<>>
    /\ error = None
    /\ snapshot = None

NextNorm == main_normalize

SpecNorm == InitNorm /\ [][NextNorm]_vars

-----------------------------------------------------------------------------
(* copy_sheet called directly, between two spreadsheets with any tabs *)

TitleUniverse ==
    {DefaultTab, TAB_MEDIA, TAB_REPORT_BUYER, CopyOf(TAB_MEDIA),
     Append(CopyOf(TAB_MEDIA), "1")}

\* The tabs of a spreadsheet: at least one, titles unique.
TabLists ==
    {[i \in 1..Len(q) |-> NewTab(i - 1, q[i])] :
        q \in {t \in SeqsUpTo(TitleUniverse, MaxTabs) :
                  /\ t # <<>>
                  /\ \A i, j \in 1..Len(t) : i # j => t[i] # t[j]}}

SpreadsheetFile(id, name) ==
    [id |-> id, name |-> name, parents |-> {FOLDER_ID}, trashed |-> FALSE]

\* A chart embedded on the first tab of a spreadsheet.
EmbeddedChart ==
    [chartType |-> "BAR", domains |-> <<Source(0, 2, 5, 0, 1)>>,
     series |-> <<Source(0, 2, 5, 1, 2)>>, anchor |-> 0]

InitCopy ==
    /\ files = {SpreadsheetFile(1, SOURCE_SHEET_NAME), SpreadsheetFile(2, TARGET_SHEET_NAME)}
    /\ deleted = {}
    /\ \E src \in TabLists, dst \in TabLists : sheets = (1 :> src) @@ (2 :> dst)
    /\ \E cs \in {<<>>, <<EmbeddedChart>>} : charts = (1 :> cs) @@ (2 :> <<>>)
    /\ pc = "call"
    /\ \E name \in {TAB_MEDIA, TAB_REPORT_BUYER} : frame = copy_sheet_frame(1, name, 2)
    /\ force = FALSE
    /\ campaign_data = None
    /\ media_data = None
    /\ df_campaign = None
    /\ df_media = None
    /\ source_id = Some(1)
    /\ target_id = Some(2)
    /\ log = <<>>
    /\ error = None
    /\ snapshot = None

NextCopy ==
    \/ copy_sheet_get
    \/ copy_sheet_copyTo
    \/ copy_sheet_rename
    \/ RemoteFailure

SpecCopy == InitCopy /\ [][NextCopy]_vars

-----------------------------------------------------------------------------
(* add_charts called directly, with any counts *)

Counts == {None} \cup {Some(n) : n \in (0 - MaxCount)..MaxCount} \cup {Some(TOP_N)}

ChartTabLists ==
    {[i \in 1..Len(q) |-> NewTab(i - 1, q[i])] :
        q \in {<<TAB_MEDIA, TAB_CAMPAIGN, TAB_REPORT_BUYER, TAB_REPORT_CAMP>>,
               <<DefaultTab, TAB_MEDIA, TAB_CAMPAIGN, TAB_REPORT_BUYER, TAB_REPORT_CAMP>>,
               <<TAB_REPORT_BUYER, TAB_REPORT_CAMP, CHART_BUYER>>,
               <<TAB_REPORT_CAMP, CHART_CAMPAIGN, TAB_REPORT_BUYER>>,
               <<TAB_REPORT_BUYER, TAB_REPORT_CAMP, CHART_BUYER, CHART_CAMPAIGN>>,
               <<DefaultTab, TAB_REPORT_BUYER>>}}

InitCharts ==
    /\ files = {SpreadsheetFile(1, TARGET_SHEET_NAME)}
    /\ deleted = {}
    /\ \E tabs \in ChartTabLists : sheets = (1 :> tabs)
    /\ charts = (1 :> <<>>)
    /\ pc = "call"
    /\ \E bc \in Counts, tn \in Counts : frame = add_charts_frame(1, bc, tn)
    /\ force = FALSE
    /\ campaign_data = None
    /\ media_data = None
    /\ df_campaign = None
    /\ df_media = None
    /\ source_id = None
    /\ target_id = Some(1)
    /\ log = <<>>
    /\ error = None
    /\ snapshot = None

NextCharts ==
    \/ add_charts_get
    \/ add_charts_ensure_sheet
    \/ add_charts_buyer
    \/ add_charts_camp
    \/ RemoteFailure

SpecCharts == InitCharts /\ [][NextCharts]_vars

-----------------------------------------------------------------------------
(* Properties of the run of main (Spec) *)

\* The non-trashed files called name in the configured folder.
SameNamedInFolder(fs, name) ==
    {f \in fs : f.name = name /\ FOLDER_ID \in f.parents /\ ~f.trashed}

\* C1: with force set, when create_sheet is about to create the spreadsheet,
\* the same-named non-trashed file its lookup returned from the configured
\* folder has been deleted (and the lookup returned none only if the folder
\* holds none); in the log the deletion precedes the creation; and every
\* file ever deleted was a non-trashed file of the configured folder, whatever
\* same-named files exist elsewhere.
C1_ForceDeletesInFolderOnly ==
    /\ \A f \in deleted :
          /\ FOLDER_ID \in f.parents
          /\ ~f.trashed
          /\ f.name \in {SOURCE_SHEET_NAME, TARGET_SHEET_NAME}
    /\ (frame.fn = "create_sheet" /\ frame.force /\ frame.step = "create") =>
          /\ frame.existing_id = None =>
                SameNamedInFolder(files, frame.name) = {}
          /\ frame.existing_id # None =>
                /\ \A f \in files : f.id # Get(frame.existing_id)
                /\ \E f \in deleted :
                      /\ f.id = Get(frame.existing_id)
                      /\ f.name = frame.name
          /\ pc = "create_source" => source_id = None
          /\ pc = "create_target" => target_id = None
    /\ \A i, j \in 1..Len(log) :
          (/\ log[i].stage = log[j].stage
           /\ log[i].fn = "create_sheet" /\ log[j].fn = "create_sheet"
           /\ log[i].step = "delete" /\ log[j].step = "create") => i < j

\* A forced run has replaced the source spreadsheet of the folder while a
\* same-named file in another folder is still there.
C1_Witness ==
    /\ force
    /\ pc = "setup_tabs"
    /\ \E f \in deleted : f.name = SOURCE_SHEET_NAME /\ FOLDER_ID \in f.parents
    /\ \E f \in files : f.name = SOURCE_SHEET_NAME /\ f.parents = {OTHER_FOLDER}

ClaimedOrder ==
    <<"fetch_campaign", "fetch_media", "normalize", "create_source", "setup_tabs",
      "upload_media", "upload_campaign", "add_reports", "create_target",
      "copy_media", "copy_campaign", "copy_report_buyer", "copy_report_camp",
      "add_charts">>

Rank(stage) == CHOOSE r \in 1..Len(ClaimedOrder) : ClaimedOrder[r] = stage

InClaimedOrder(stage) == \E r \in 1..Len(ClaimedOrder) : ClaimedOrder[r] = stage

\* The last call of each stage.
FinalStepOf(stage) ==
    CASE stage \in {"fetch_campaign", "fetch_media"} -> "get"
      [] stage = "normalize" -> "local"
      [] stage \in {"create_source", "create_target"} -> "create"
      [] stage = "setup_tabs" -> "batchUpdate"
      [] stage \in {"upload_media", "upload_campaign"} -> "update"
      [] stage = "add_reports" -> "formats"
      [] stage \in CopyStages -> "rename"
      [] stage = "add_charts" -> "chart_camp"

CompletedBefore(j, stage) ==
    \E i \in 1..(j - 1) :
        log[i].stage = stage /\ log[i].ok /\ log[i].step = FinalStepOf(stage)

C3_NoRetry ==
    /\ \A i \in 1..Len(log) :
          ~log[i].ok => (i = Len(log) /\ pc = "aborted" /\ error # None)
    /\ pc = "aborted" => (Len(log) > 0 /\ ~log[Len(log)].ok)

\* A run aborted by the failure of a Sheets call in the middle of the copies.
C3_Witness ==
    /\ pc = "aborted"
    /\ error = Some("remote")
    /\ log[Len(log)].fn = "copy_sheet"
    /\ log[Len(log)].stage = "copy_campaign"
    /\ log[Len(log)].step = "rename"

C9_ShapeNeverAborts == error # Some("KeyError")

-----------------------------------------------------------------------------
(* Properties of copy_sheet (SpecCopy) *)

\* C4: when copy_sheet(source, name, target) has returned, the tab it copied
\* into the target carries exactly the title name, not the title the provider
\* generated for the copy, whatever tabs the target held before.
C4_CopyKeepsName ==
    (pc = "returned" /\ frame.fn = "copy_sheet") =>
        LET tabs == sheets[frame.target_id]
        IN  /\ HasTitle(sheets[frame.source_id], frame.sheet_name)
            /\ \E i \in 1..Len(tabs) :
                  /\ tabs[i].sheetId = Get(frame.result)
                  /\ tabs[i].title = frame.sheet_name
                  /\ tabs[i].title # Get(frame.auto_title)
            /\ Cardinality({i \in 1..Len(tabs) : tabs[i].title = frame.sheet_name}) = 1

\* The copy has returned on a target that already held a tab with the
\* provider's copy title, so that the generated title was a numbered one.
C4_Witness ==
    /\ pc = "returned"
    /\ frame.fn = "copy_sheet"
    /\ HasTitle(sheets[frame.target_id], CopyOf(frame.sheet_name))
    /\ Get(frame.auto_title) = Append(CopyOf(frame.sheet_name), "1")
    /\ Len(sheets[frame.target_id]) = MaxTabs + 1

-----------------------------------------------------------------------------
(* Properties of the ranges of add_charts (SpecCharts) *)

Sources(chart) ==
    {chart.domains[i] : i \in 1..Len(chart.domains)}
        \cup {chart.series[i] : i \in 1..Len(chart.series)}

\* The charts add_charts has sent so far in the direct call: the buyer chart
\* first, the campaign chart second.
BuyerChartSent == frame.fn = "add_charts" /\ Len(charts[frame.spreadsheet_id]) >= 1
CampChartSent == frame.fn = "add_charts" /\ Len(charts[frame.spreadsheet_id]) >= 2
SentBuyerChart == charts[frame.spreadsheet_id][1]
SentCampChart == charts[frame.spreadsheet_id][2]

NonNegative(count) == count # None /\ Get(count) >= 0

\* C5 as stated: for a row count n >= 0 every range of the summary block's
\* chart satisfies endRow - startRow = n.
C5_ExactRows ==
    /\ (BuyerChartSent /\ NonNegative(frame.buyers_count)) =>
          \A r \in Sources(SentBuyerChart) :
              r.endRowIndex - r.startRowIndex = Get(frame.buyers_count)
    /\ (CampChartSent /\ NonNegative(frame.top_n)) =>
          \A r \in Sources(SentCampChart) :
              r.endRowIndex - r.startRowIndex = Get(frame.top_n)

\* C5 as amended: for a row count n >= 0 every range of the summary block's
\* chart starts at the block's header row (index 2) and satisfies
\* endRow - startRow = n + 1: the header row and exactly n data rows.
C5_HeaderPlusRows ==
    /\ (BuyerChartSent /\ NonNegative(frame.buyers_count)) =>
          \A r \in Sources(SentBuyerChart) :
              /\ r.startRowIndex = 2
              /\ r.endRowIndex - r.startRowIndex = Get(frame.buyers_count) + 1
    /\ (CampChartSent /\ NonNegative(frame.top_n)) =>
          \A r \in Sources(SentCampChart) :
              /\ r.startRowIndex = 2
              /\ r.endRowIndex - r.startRowIndex = Get(frame.top_n) + 1

\* Both charts sent for two buyers and the pipeline's top_n.
C5_Witness ==
    /\ CampChartSent
    /\ frame.buyers_count = Some(2)
    /\ frame.top_n = Some(TOP_N)
    /\ SentCampChart.domains[1].endRowIndex = 28

Unknown(count) == count = None \/ count = Some(0)

\* C6: when the row count is 0 or None, every domain and series range of the
\* chart is non-degenerate: startRowIndex < endRowIndex.
C6_NonDegenerate ==
    /\ (BuyerChartSent /\ Unknown(frame.buyers_count)) =>
          \A r \in Sources(SentBuyerChart) : r.startRowIndex < r.endRowIndex
    /\ (CampChartSent /\ Unknown(frame.top_n)) =>
          \A r \in Sources(SentCampChart) : r.startRowIndex < r.endRowIndex

\* Both charts sent with an unknown buyer count and a top_n of 0.
C6_Witness ==
    /\ CampChartSent
    /\ frame.buyers_count = None
    /\ frame.top_n = Some(0)

Absent(count) == count = None \/ Get(count) < 0

\* C7: for a negative or absent count the ranges are those of a count of 0
\* (rows 2 to 3), and no range of any chart sent has endRowIndex below
\* startRowIndex.
C7_ClampToZero ==
    /\ (BuyerChartSent /\ Absent(frame.buyers_count)) =>
          \A r \in Sources(SentBuyerChart) :
              r.startRowIndex = 2 /\ r.endRowIndex = 3
    /\ (CampChartSent /\ Absent(frame.top_n)) =>
          \A r \in Sources(SentCampChart) :
              r.startRowIndex = 2 /\ r.endRowIndex = 3
    /\ \A id \in DOMAIN charts : \A i \in 1..Len(charts[id]) :
          \A r \in Sources(charts[id][i]) : r.endRowIndex >= r.startRowIndex

\* Both charts sent for a negative buyer count and an absent top_n.
C7_Witness ==
    /\ CampChartSent
    /\ frame.buyers_count = Some(0 - 2)
    /\ frame.top_n = None

-----------------------------------------------------------------------------
(* Properties of the DataFrame stage (SpecNorm) *)

\* What the coercion must give for the values of the inputs.
ExpectedNumber(v) ==
    CASE v = S_12_5 -> Num(125, 1)
      [] v = S_20 -> Num(20, 0)
      [] v = Num(40, 0) -> Num(40, 0)
      [] v \in {S_abc, S_bad, NoneVal, NaN} -> NaN

\* The raw value of a field of a record; NaN when the record has no such key.
Raw(record, k) == IF k \in Keys(record) THEN Value(record, k) ELSE NaN

\* C10: when the media normalization returns, the table has one row per
\* record, in the order of the records; its Revenue and Spend cells hold the
\* number of a numeric string ("12.5" gives 12.5) and the null marker for an
\* unparseable string or a missing value; its other cells hold the record's
\* value unchanged.
C10_Coercion ==
    df_media # None =>
        LET recs == Get(media_data)
            df == Get(df_media)
        IN  /\ Len(df.rows) = Len(recs)
            /\ \A k \in UNION {Keys(recs[i]) : i \in 1..Len(recs)} : HasColumn(df, k)
            /\ \A i \in 1..Len(recs) : \A j \in 1..Len(df.columns) :
                  IF df.columns[j] \in {"Revenue", "Spend"}
                  THEN df.rows[i][j] = ExpectedNumber(Raw(recs[i], df.columns[j]))
                  ELSE df.rows[i][j] = Raw(recs[i], df.columns[j])

\* Two records normalised: "12.5" and None as Revenue, "bad" as Spend.
C10_Witness ==
    /\ df_media # None
    /\ Len(Get(media_data)) = 2
    /\ Raw(Get(media_data)[1], "Revenue") = S_12_5
    /\ Raw(Get(media_data)[2], "Revenue") = NoneVal
    /\ Raw(Get(media_data)[2], "Spend") = S_bad
    /\ Raw(Get(media_data)[2], "Media Buyer") = S_B

-----------------------------------------------------------------------------
(* setup_tabs called directly, with any names *)

NameUniverse == {DefaultTab, TAB_MEDIA, TAB_CAMPAIGN, TAB_REPORT_BUYER}

NameLists == SeqsUpTo(NameUniverse, MaxNames) \ {<<>>}

FreshTabs == <<NewTab(0, DefaultTab)>>

InitTabs ==
    /\ files = {SpreadsheetFile(1, SOURCE_SHEET_NAME)}
    /\ deleted = {}
    /\ \E tabs \in TabLists : sheets = (1 :> tabs) /\ snapshot = Some(tabs)
    /\ charts = (1 :> <<>>)
    /\ pc = "call"
    /\ \E names \in NameLists : frame = setup_tabs_frame(1, names)
    /\ force = FALSE
    /\ campaign_data = None
    /\ media_data = None
    /\ df_campaign = None
    /\ df_media = None
    /\ source_id = Some(1)
    /\ target_id = None
    /\ log = <<>>
    /\ error = None

NextTabs ==
    \/ setup_tabs
    \/ RemoteFailure

SpecTabs == InitTabs /\ [][NextTabs]_vars

-----------------------------------------------------------------------------
(* Properties of setup_tabs (SpecTabs) *)

TitleSeq(tabs) == [i \in 1..Len(tabs) |-> tabs[i].title]

UniqueTitles(tabs) == \A i, j \in 1..Len(tabs) : i # j => tabs[i].title # tabs[j].title

Repeats(names) == \E i, j \in 1..Len(names) : i # j /\ names[i] = names[j]

\* C11 as stated: the call fails whenever a name equals the title of any
\* tab the spreadsheet holds before the call.
C11_FailsOnAnyExistingTitle ==
    (frame.fn = "setup_tabs"
        /\ \E k \in 1..Len(frame.tab_names) :
              HasTitle(Get(snapshot), frame.tab_names[k]))
    => pc # "returned"

\* C11 as amended: after setup_tabs succeeds on a freshly created spreadsheet
\* its tabs are exactly the names, in order, the implicit first tab (sheetId
\* 0) carrying names[0]; when two names are equal, or a name equals the title
\* of an existing tab other than the first tab being renamed, the call fails
\* and changes nothing; no spreadsheet ever has two tabs of one title.
C11_TabsExactlyNames ==
    frame.fn = "setup_tabs" =>
        LET before == Get(snapshot)
            names == frame.tab_names
            tabs == sheets[frame.spreadsheet_id]
        IN  /\ UniqueTitles(tabs)
            /\ (pc = "returned" /\ before = FreshTabs) =>
                  /\ TitleSeq(tabs) = names
                  /\ tabs[1].sheetId = 0
            /\ (Repeats(names)
                  \/ \E k \in 1..Len(names), i \in 1..Len(before) :
                        before[i].sheetId # 0 /\ before[i].title = names[k]) =>
                  /\ pc # "returned"
                  /\ tabs = before

\* setup_tabs has returned on a fresh spreadsheet given three names, one of
\* them the title the first tab had.
C11_Witness ==
    /\ pc = "returned"
    /\ frame.fn = "setup_tabs"
    /\ Get(snapshot) = FreshTabs
    /\ Len(frame.tab_names) = 3
    /\ frame.tab_names[2] = DefaultTab
    /\ Len(sheets[frame.spreadsheet_id]) = 3

-----------------------------------------------------------------------------
(* add_report_formulas and add_charts applied twice to one spreadsheet *)

\* The frame of a second call with the arguments of the first.
SameCall(fr) ==
    IF fr.fn = "add_charts"
    THEN add_charts_frame(fr.spreadsheet_id, fr.buyers_count, fr.top_n)
    ELSE add_report_formulas_frame(fr.spreadsheet_id, fr.top_n)

\* The function has returned: the state it left is recorded and it is called
\* again on the same spreadsheet.
apply_again ==
    /\ pc = "returned"
    /\ snapshot = None
    /\ frame.fn \in {"add_charts", "add_report_formulas"}
    /\ snapshot' = Some(<<sheets[frame.spreadsheet_id], charts[frame.spreadsheet_id]>>)
    /\ pc' = "call"
    /\ frame' = SameCall(frame)
    /\ UNCHANGED <<driveVars, sheetVars, dataVars, source_id, target_id, force, log, error>>

InitTwice ==
    /\ files = {SpreadsheetFile(1, TARGET_SHEET_NAME)}
    /\ deleted = {}
    /\ \E tabs \in ChartTabLists : sheets = (1 :> tabs)
    /\ charts = (1 :> <<>>)
    /\ pc = "call"
    /\ \/ \E bc \in Counts, tn \in Counts : frame = add_charts_frame(1, bc, tn)
       \/ \E tn \in Counts : frame = add_report_formulas_frame(1, tn)
    /\ force = FALSE
    /\ campaign_data = None
    /\ media_data = None
    /\ df_campaign = None
    /\ df_media = None
    /\ source_id = None
    /\ target_id = Some(1)
    /\ log = <<>>
    /\ error = None
    /\ snapshot = None

NextTwice ==
    \/ add_report_formulas_get
    \/ add_report_formulas_cells
    \/ add_report_formulas_formats
    \/ add_charts_get
    \/ add_charts_ensure_sheet
    \/ add_charts_buyer
    \/ add_charts_camp
    \/ apply_again
    \/ RemoteFailure

SpecTwice == InitTwice /\ [][NextTwice]_vars

-----------------------------------------------------------------------------
(* Properties of a second application (SpecTwice) *)

\* C12: when add_report_formulas or add_charts has returned from its second
\* application to a spreadsheet, the tabs (with their cells and formats) and
\* the charts are those the first application left.
C12_SecondApplicationChangesNothing ==
    (pc = "returned" /\ snapshot # None)
    => <<sheets[frame.spreadsheet_id], charts[frame.spreadsheet_id]>> = Get(snapshot)

\* The part of C12 that holds: a second add_report_formulas changes nothing.
C12_ReportFormulasIdempotent ==
    (pc = "returned" /\ snapshot # None /\ frame.fn = "add_report_formulas")
    => <<sheets[frame.spreadsheet_id], charts[frame.spreadsheet_id]>> = Get(snapshot)

\* What add_charts does instead: each application appends its two charts.
C12_ChartsAccumulate ==
    (pc = "returned" /\ frame.fn = "add_charts")
    => Len(charts[frame.spreadsheet_id]) = IF snapshot = None THEN 2 ELSE 4

-----------------------------------------------------------------------------
(* Where charts come from (Spec) *)

ChartCalls ==
    {i \in 1..Len(log) :
        log[i].ok /\ log[i].fn = "add_charts" /\ log[i].stage = "add_charts"
                  /\ log[i].step \in {"chart_buyer", "chart_camp"}}

-----------------------------------------------------------------------------
(* The campaign rename applied to tables of any headers, and applied again *)

\* The headers the map produces.
CanonicalHeaders == {CampaignRename(k) : k \in CampaignRenameKeys}

HeaderUniverse == CampaignRenameKeys \cup CanonicalHeaders \cup {"clicks"}

\* One JSON record per table, its keys (distinct) in any order.
HeaderLists ==
    {h \in SeqsUpTo(HeaderUniverse, MaxHeaders) :
        \A i, j \in 1..Len(h) : i # j => h[i] # h[j]}

RecordOf(h) == [i \in 1..Len(h) |-> <<h[i], S_A>>]

rename_frame == [fn |-> "rename", step |-> "rename", applied |-> 0]

\* df_campaign = df_campaign.rename(columns=...); the table before is kept.
rename_columns ==
    /\ frame.fn = "rename" /\ frame.applied < 2
    /\ snapshot' = df_campaign
    /\ df_campaign' = Some(rename(Get(df_campaign)))
    /\ frame' = [frame EXCEPT !.applied = @ + 1,
                              !.step = IF frame.applied = 1 THEN "done" ELSE @]
    /\ pc' = IF frame.applied = 1 THEN Return(pc) ELSE pc
    /\ UNCHANGED <<driveVars, sheetVars, campaign_data, media_data, df_media,
                   source_id, target_id, force, log, error>>

InitRename ==
    /\ files = {}
    /\ deleted = {}
    /\ sheets = <<>>
    /\ charts = <<>>
    /\ pc = "call"
    /\ frame = rename_frame
    /\ force = FALSE
    /\ \E h \in HeaderLists :
          /\ campaign_data = Some(<<RecordOf(h)>>)
          /\ df_campaign = Some(DataFrame(<<RecordOf(h)>>))
    /\ media_data = None
    /\ df_media = None
    /\ source_id = None
    /\ target_id = None
    /\ log = <<>>
    /\ error = None
    /\ snapshot = None

NextRename == rename_columns

SpecRename == InitRename /\ [][NextRename]_vars

-----------------------------------------------------------------------------
(* Properties of the campaign rename (SpecRename) *)

Canonical(df) == \A j \in 1..Len(df.columns) : df.columns[j] \in CanonicalHeaders

\* C14: the rename applied to a table whose headers are all canonical changes
\* no header, and the second application of the rename to any table leaves
\* what the first application produced.
C14_RenameIdempotent ==
    (frame.fn = "rename" /\ frame.applied >= 1) =>
        /\ Canonical(Get(snapshot)) => Get(df_campaign) = Get(snapshot)
        /\ frame.applied = 2 => Get(df_campaign) = Get(snapshot)

\* A table with raw headers, renamed twice: the second application was to
\* canonical headers.
C14_Witness ==
    /\ frame.fn = "rename" /\ frame.applied = 2
    /\ HasColumn(DataFrame(Get(campaign_data)), "Revenue")
    /\ HasColumn(DataFrame(Get(campaign_data)), "offer")
    /\ Get(df_campaign).columns = <<"Revenue Prediction", "Offer">>
    /\ Canonical(Get(snapshot))

-----------------------------------------------------------------------------
(* Chart ranges against the rows of the summaries (Spec) *)

Blank(v) == v \in {NaN, NoneVal}

CellOrBlank(row, j) == IF j <= Len(row) THEN row[j] ELSE NaN

\* The rows a QUERY "where Col1 is not null group by Col1, ..., Colk" returns
\* over the table written to a tab.
GroupCount(df, k) ==
    Cardinality({[j \in 1..k |-> CellOrBlank(df.rows[i], j)] :
                    i \in {n \in 1..Len(df.rows) : ~Blank(CellOrBlank(df.rows[n], 1))}})

Min(a, b) == IF a <= b THEN a ELSE b

\* Data rows of the buyer summary and of the campaign summary ("limit top_n").
BuyerSummaryRows == GroupCount(Get(df_media), 1)
CampSummaryRows == Min(GroupCount(Get(df_campaign), 3), TOP_N)

\* C15: in a finished run every range of the buyer chart ends at the header
\* rows plus the number of distinct media buyers, and every range of the
\* campaign chart at the header rows plus the number of rows of the campaign
\* summary.
C15_RangesFollowData ==
    pc = "done" =>
        LET cs == charts[Get(target_id)]
        IN  /\ \A r \in Sources(cs[1]) :
                  r.endRowIndex = r.startRowIndex + 1 + BuyerSummaryRows
            /\ \A r \in Sources(cs[2]) :
                  r.endRowIndex = r.startRowIndex + 1 + CampSummaryRows

\* The part of C15 that holds: the buyer chart follows the buyer summary.
C15_BuyerRangeFollowsData ==
    pc = "done" =>
        \A r \in Sources(charts[Get(target_id)][1]) :
            r.endRowIndex = r.startRowIndex + 1 + BuyerSummaryRows

\* What the campaign chart covers instead: the header and TOP_N rows.
C15_CampRangeFixed ==
    pc = "done" =>
        \A r \in Sources(charts[Get(target_id)][2]) :
            r.endRowIndex = r.startRowIndex + 1 + TOP_N

-----------------------------------------------------------------------------
(* A run that fails between the two creations (Spec) *)

FailedBetweenCreations == pc = "aborted" /\ source_id # None /\ target_id = None

SourceInFolder ==
    \E f \in files :
        /\ f.id = Get(source_id)
        /\ f.name = SOURCE_SHEET_NAME
        /\ FOLDER_ID \in f.parents
        /\ ~f.trashed

\* C16 as stated: after a failure between the two creations the source is in
\* the folder, the run has deleted nothing, and it has created no target.
C16_NothingDeleted ==
    FailedBetweenCreations =>
        /\ SourceInFolder
        /\ deleted = {}
        /\ DOMAIN sheets = {Get(source_id)}

\* C16 as amended: after a failure between the two creations the source
\* spreadsheet the run created is still in the folder, the run has created no
\* other spreadsheet, and what it has deleted is nothing it created: only,
\* under the overwrite flag, files named like the source or the target that
\* were in the folder before the run.
C16_SourceRemains ==
    FailedBetweenCreations =>
        /\ SourceInFolder
        /\ DOMAIN sheets = {Get(source_id)}
        /\ \A f \in deleted :
              /\ f.id < Get(source_id)
              /\ f.name \in {SOURCE_SHEET_NAME, TARGET_SHEET_NAME}
        /\ deleted # {} => force

\* A forced run that failed while creating the target, after it had deleted
\* the target of an earlier run: the new source is there, no target is.
C16_Witness ==
    /\ FailedBetweenCreations
    /\ SourceInFolder
    /\ log[Len(log)].stage = "create_target"
    /\ \E f \in deleted : f.name = TARGET_SHEET_NAME
    /\ SameNamedInFolder(files, TARGET_SHEET_NAME) = {}

-----------------------------------------------------------------------------
(* Same-named files after a forced creation (Spec) *)

\* C17: when create_sheet(name, force=True) has returned, the configured
\* folder holds exactly one non-trashed file of that name, however many it
\* held before.
C17_ExactlyOneAfterForce ==
    /\ (force /\ pc = "setup_tabs") =>
          Cardinality(SameNamedInFolder(files, SOURCE_SHEET_NAME)) = 1
    /\ (force /\ pc = "copy_media") =>
          Cardinality(SameNamedInFolder(files, TARGET_SHEET_NAME)) = 1

\* What holds instead: the forced creation removes at most one file, so the
\* folder holds as many same-named files as before, or one when it held none.
C17_AtMostOneRemoved ==
    (force /\ pc = "setup_tabs") =>
        LET before == SameNamedInFolder(files \cup deleted, SOURCE_SHEET_NAME)
                          \ {f \in files : f.id = Get(source_id)}
            after == SameNamedInFolder(files, SOURCE_SHEET_NAME)
        IN  Cardinality(after) = IF before = {} THEN 1 ELSE Cardinality(before)

====
